---- MODULE Spec2Model ----
(***************************************************************************)
(* Model of the HOA financial-report automation: the command line entry    *)
(* (main), the orchestrator (generateAndSendReport, testInform,            *)
(* testConnections), the Invoice Ninja client with its pagination loop,    *)
(* the PDF generator handle and the e-mail sender.                         *)
(*                                                                         *)
(* Every `await` of the program is a point where the model splits an       *)
(* operation in two actions: the one that issues the asynchronous call and *)
(* the one in which the collaborator (accounting API, PDF engine, file     *)
(* system, SMTP transport) answers, successfully or not.                   *)
(***************************************************************************)
EXTENDS Integers, Sequences, FiniteSets, TLC

(***************************************************************************)
(* Bounds of the model.                                                    *)
(***************************************************************************)
\* INVOICE_NINJA_PER_PAGE as configured for the runs explored.
PerPage == 1
\* Pages beyond the first of each fetch that the upstream offers in one run.
MaxExtraPages == 1
\* Records the upstream hands out in one run, all fetches together.
MaxRecords == 2

(***************************************************************************)
(* Dates.  A point in time is day * 10 + slot, where day is the calendar   *)
(* day written yyyymmdd and slot is 0 for 00:00:00.000 up to 9 for         *)
(* 23:59:59.999.  InvalidDate is the Invalid Date of JavaScript.           *)
(***************************************************************************)
InvalidDate == 0

MkDate(y, m, d, slot) == ((y * 100 + m) * 100 + d) * 10 + slot

YearOf(t) == t \div 100000

MonthOf(t) == (t \div 1000) % 100

DayOf(t) == (t \div 10) % 100

SlotOf(t) == t % 10

IsLeapYear(y) == (y % 4 = 0 /\ y % 100 # 0) \/ y % 400 = 0

\* DaysInMonth as a plausible slip would have it: February is given 28
\* days in every year.
DaysInMonthNoLeap(y, m) ==
  IF m = 2 THEN 28
  ELSE IF m \in {4, 6, 9, 11} THEN 30 ELSE 31

DaysInMonth(y, m) ==
  IF m = 2 THEN (IF IsLeapYear(y) THEN 29 ELSE 28)
  ELSE IF m \in {4, 6, 9, 11} THEN 30 ELSE 31

MinOf(a, b) == IF a < b THEN a ELSE b

startOfMonth(t) == MkDate(YearOf(t), MonthOf(t), 1, 0)

endOfMonth(t) == MkDate(YearOf(t), MonthOf(t), DaysInMonth(YearOf(t), MonthOf(t)), 9)

startOfYear(t) == MkDate(YearOf(t), 1, 1, 0)

endOfYear(t) == MkDate(YearOf(t), 12, 31, 9)

\* date-fns subMonths(t, 1): the same day of the previous month, clamped to
\* that month's length.
subMonths(t) ==
  LET y == IF MonthOf(t) = 1 THEN YearOf(t) - 1 ELSE YearOf(t)
      m == IF MonthOf(t) = 1 THEN 12 ELSE MonthOf(t) - 1
  IN  MkDate(y, m, MinOf(DayOf(t), DaysInMonth(y, m)), SlotOf(t))

\* date-fns subYears(t, 1).
subYears(t) ==
  LET y == YearOf(t) - 1
  IN  MkDate(y, MonthOf(t), MinOf(DayOf(t), DaysInMonth(y, MonthOf(t))), SlotOf(t))

(***************************************************************************)
(* Period resolution.  A custom range is NoRange (null) or a record whose  *)
(* start and end are a point in time, NoDate (absent or empty string) or   *)
(* BadDate (a string parseISO cannot read).                                *)
(***************************************************************************)
NoDate == -1

BadDate == -2

NoRange == [isNull |-> TRUE, start |-> NoDate, end |-> NoDate]

PeriodTokens == {"current-month", "last-month", "current-year", "last-year", "custom"}

\* parseISO of a string: the empty string (what `expense.date ||
\* expense.expense_date || ''` gives when both fields are missing) and an
\* unreadable string give Invalid Date.
parseISO(v) == IF v = BadDate \/ v = NoDate THEN InvalidDate ELSE v

\* getDateRange as a plausible slip would have it: a token outside the
\* enumeration falls back to the current month instead of failing.
getDateRangeFallsBack(period, customRange, clock) ==
  LET range(s, e) ==
        IF s = InvalidDate \/ e = InvalidDate
          THEN [ok |-> FALSE, error |-> "RangeError: Invalid time value"]
          ELSE [ok |-> TRUE, start |-> s, end |-> e]
  IN  CASE period = "last-month" ->
             range(startOfMonth(subMonths(clock)), endOfMonth(subMonths(clock)))
        [] period = "current-year" -> range(startOfYear(clock), endOfYear(clock))
        [] period = "last-year" ->
             range(startOfYear(subYears(clock)), endOfYear(subYears(clock)))
        [] period = "custom" ->
             IF customRange = NoRange
               THEN [ok |-> FALSE, error |-> "Custom range requires start and end dates"]
               ELSE IF customRange.start = NoDate \/ customRange.end = NoDate
                 THEN [ok |-> FALSE, error |-> "Custom range requires start and end dates"]
                 ELSE range(parseISO(customRange.start), parseISO(customRange.end))
        [] OTHER -> range(startOfMonth(clock), endOfMonth(clock))

\* getDateRange(period, customRange) evaluated at time `clock`.  The result
\* is [ok |-> TRUE, start, end] or [ok |-> FALSE, error]; format() of an
\* Invalid Date throws a RangeError.
getDateRange(period, customRange, clock) ==
  LET range(s, e) ==
        IF s = InvalidDate \/ e = InvalidDate
          THEN [ok |-> FALSE, error |-> "RangeError: Invalid time value"]
          ELSE [ok |-> TRUE, start |-> s, end |-> e]
  IN  CASE period = "current-month" -> range(startOfMonth(clock), endOfMonth(clock))
        [] period = "last-month" ->
             range(startOfMonth(subMonths(clock)), endOfMonth(subMonths(clock)))
        [] period = "current-year" -> range(startOfYear(clock), endOfYear(clock))
        [] period = "last-year" ->
             range(startOfYear(subYears(clock)), endOfYear(subYears(clock)))
        [] period = "custom" ->
             IF customRange = NoRange
               THEN [ok |-> FALSE, error |-> "Custom range requires start and end dates"]
               ELSE IF customRange.start = NoDate \/ customRange.end = NoDate
                 THEN [ok |-> FALSE, error |-> "Custom range requires start and end dates"]
                 ELSE range(parseISO(customRange.start), parseISO(customRange.end))
        [] OTHER -> [ok |-> FALSE, error |-> "Unknown period"]

(***************************************************************************)
(* Records and the client-side date filter.                                *)
(***************************************************************************)
\* date-fns 3 isWithinInterval: the bounds are put in order, the test is
\* closed on both ends, and an Invalid Date is never within an interval.
isWithinInterval(t, start, end) ==
  LET lo == MinOf(start, end)
      hi == IF start < end THEN end ELSE start
  IN  t # InvalidDate /\ lo <= t /\ t <= hi

\* filterExpensesByDate as a plausible slip would have it: the start_date /
\* end_date hint is trusted and what the upstream returned is kept.
filterExpensesByDateTrustsHint(expenses, startDate, endDate) == expenses

\* filterExpensesByDate as a plausible slip would have it: the records
\* outside the interval are spliced out of the list while it is walked by
\* index, so the record after each removed one is never tested.
RECURSIVE filterExpensesByDateSplices(_, _, _)
filterExpensesByDateSplices(expenses, startDate, endDate) ==
  IF expenses = <<>> THEN <<>>
  ELSE IF isWithinInterval(parseISO(Head(expenses).date), startDate, endDate)
    THEN <<Head(expenses)>> \o filterExpensesByDateSplices(Tail(expenses), startDate, endDate)
    ELSE IF Len(expenses) = 1 THEN <<>>
    ELSE <<expenses[2]>>
         \o filterExpensesByDateSplices(SubSeq(expenses, 3, Len(expenses)), startDate, endDate)

RECURSIVE filterExpensesByDate(_, _, _)
filterExpensesByDate(expenses, startDate, endDate) ==
  IF expenses = <<>> THEN <<>>
  ELSE LET expense == Head(expenses)
           rest == filterExpensesByDate(Tail(expenses), startDate, endDate)
       IN  IF isWithinInterval(parseISO(expense.date), startDate, endDate)
             THEN <<expense>> \o rest
             ELSE rest

\* filterInvoicesByDate and filterPaymentsByDate apply the same test to the
\* invoice and payment lists.
filterInvoicesByDate(invoices, startDate, endDate) ==
  filterExpensesByDate(invoices, startDate, endDate)

filterPaymentsByDate(payments, startDate, endDate) ==
  filterExpensesByDate(payments, startDate, endDate)

(***************************************************************************)
(* Amounts are whole cents.  NaN is the not-a-number of JavaScript.  The    *)
(* amount field of a record is a number, NoAmount (absent) or              *)
(* UnparsableAmount (a string that is no number, such as "N/A").           *)
(***************************************************************************)
NaN == -999999

NoAmount == -999998

UnparsableAmount == -999997

Add(a, b) == IF a = NaN \/ b = NaN THEN NaN ELSE a + b

Sub(a, b) == IF a = NaN \/ b = NaN THEN NaN ELSE a - b

\* parseFloat(String(expense.amount || 0)): an absent amount is 0, a text
\* that is no number is NaN.
parseFloat(amount) ==
  IF amount = NoAmount THEN 0
  ELSE IF amount = UnparsableAmount THEN NaN
  ELSE amount

RECURSIVE calculateTotal(_)
calculateTotal(expenses) ==
  IF expenses = <<>> THEN 0
  ELSE Add(calculateTotal(SubSeq(expenses, 1, Len(expenses) - 1)),
           parseFloat(expenses[Len(expenses)].amount))

\* The comparator of sortByDate: dateA.getTime() - dateB.getTime() for
\* 'asc', the opposite otherwise; it is NaN when either date is invalid, and
\* the sort takes a NaN as 0.
CompareByDate(a, b, order) ==
  LET dateA == parseISO(a.date)
      dateB == parseISO(b.date)
  IN  IF dateA = InvalidDate \/ dateB = InvalidDate THEN 0
      ELSE IF order = "asc" THEN dateA - dateB ELSE dateB - dateA

\* The comparator of sortByAmount: amountA - amountB for 'asc', the opposite
\* otherwise; NaN, taken as 0, when either amount is NaN.
CompareByAmount(a, b, order) ==
  LET amountA == parseFloat(a.amount)
      amountB == parseFloat(b.amount)
  IN  IF amountA = NaN \/ amountB = NaN THEN 0
      ELSE IF order = "asc" THEN amountA - amountB ELSE amountB - amountA

\* Stable insertion of a record in a list the comparator has ordered: the
\* record moves in front of the records it compares below.
RECURSIVE InsertByDate(_, _, _)
InsertByDate(sorted, r, order) ==
  IF sorted = <<>> THEN <<r>>
  ELSE IF CompareByDate(r, sorted[Len(sorted)], order) < 0
         THEN Append(InsertByDate(SubSeq(sorted, 1, Len(sorted) - 1), r, order),
                     sorted[Len(sorted)])
         ELSE Append(sorted, r)

RECURSIVE InsertByAmount(_, _, _)
InsertByAmount(sorted, r, order) ==
  IF sorted = <<>> THEN <<r>>
  ELSE IF CompareByAmount(r, sorted[Len(sorted)], order) < 0
         THEN Append(InsertByAmount(SubSeq(sorted, 1, Len(sorted) - 1), r, order),
                     sorted[Len(sorted)])
         ELSE Append(sorted, r)

\* sortByDate(expenses, order): a sorted copy.
RECURSIVE sortByDate(_, _)
sortByDate(expenses, order) ==
  IF expenses = <<>> THEN <<>>
  ELSE InsertByDate(sortByDate(SubSeq(expenses, 1, Len(expenses) - 1), order),
                    expenses[Len(expenses)], order)

\* sortByAmount(expenses, order): a sorted copy.
RECURSIVE sortByAmount(_, _)
sortByAmount(expenses, order) ==
  IF expenses = <<>> THEN <<>>
  ELSE InsertByAmount(sortByAmount(SubSeq(expenses, 1, Len(expenses) - 1), order),
                      expenses[Len(expenses)], order)

\* getUnpaidInvoices(allInvoices): the invoices with a balance above zero.
RECURSIVE getUnpaidInvoices(_)
getUnpaidInvoices(invoices) ==
  IF invoices = <<>> THEN <<>>
  ELSE LET rest == getUnpaidInvoices(Tail(invoices))
       IN  IF Head(invoices).balance > 0 THEN <<Head(invoices)>> \o rest ELSE rest

RECURSIVE SumBalance(_)
SumBalance(invoices) ==
  IF invoices = <<>> THEN 0
  ELSE Add(SumBalance(SubSeq(invoices, 1, Len(invoices) - 1)), invoices[Len(invoices)].balance)

(***************************************************************************)
(* State.                                                                  *)
(***************************************************************************)
VARIABLES
  variant,        \* "js": src/index.js (expenses only); "ts": src/index.ts
  client,         \* "single", "inline" or "helper": the client's getExpenses
  viaMain,        \* TRUE when main() runs the command, FALSE for a library call
  command,        \* args[0], or the method a library caller invokes
  options,        \* [period, customRange, saveToFile, emailTo]
  env,            \* [api, smtp, emailTo]: which settings process.env holds
  now,            \* reading of the clock (new Date())
  pc,             \* position of the single flow of control
  outcome,        \* "none", "returned", "threw", "usage"
  error,          \* message of the error raised, "" when none
  exitCode,       \* exit code of the process, NoExit while it runs
  result,         \* value returned by the method invoked
  dateRange,      \* value of getDateRange
  report,         \* data handed to the PDF generator
  fetchIdx,       \* position in FetchPlan of the fetch under way
  currentPage,    \* currentPage of the pagination loop
  allResults,     \* allResults / allExpenses / allInvoices of the loop
  inflight,       \* requests sent to the accounting API and not yet answered
  requested,      \* page numbers requested by the fetch under way
  requestLog,     \* every request issued, in order
  lastResponse,   \* the latest answer of the accounting API
  responses,      \* the pages the fetch under way was answered with, in order
  failedRequest,  \* the request the accounting API failed, NoRequest when none
  fetched,        \* kind -> value returned by the fetch of that kind
  completed,      \* kinds whose fetch has returned
  jsreport,       \* PDFGenerator.jsreport: "null", or the engine it holds:
                  \* "created" (init under way), "ready", "failed" (init rejected)
  initCalls,      \* calls of jsreport.init()
  renderCalls,    \* calls of jsreport.render()
  closeCalls,     \* calls of jsreport.close()
  pdfBuffer,      \* TRUE once render has produced the PDF bytes
  fileWritten,    \* TRUE once fs.writeFile has written the PDF
  transporter,    \* EmailSender.transporter is set
  sendCalls,      \* calls of sendFinancialReport / sendExpenseReport
  sendMailCalls,  \* calls of transporter.sendMail
  delivered,      \* TRUE once sendMail has succeeded
  argExpenses,    \* the record list a data utility is called on
  argStart,       \* startDate of a call of filterExpensesByDate
  argEnd,         \* endDate of a call of filterExpensesByDate
  argOrder,       \* order of a call of sortByDate / sortByAmount
  called,         \* the data utilities called on their own, in order
  returned,       \* what each of these calls returned or threw
  callerPc,       \* where each caller of the PDFGenerator stands
  callsMade,      \* calls each caller has made on the PDFGenerator
  renderedOn      \* the states of the engine at the calls of its render

\* The arguments and results of the data utilities called on their own, as
\* a caller of the library or a test does.
utilVars == <<argExpenses, argStart, argEnd, argOrder, called, returned>>

\* The callers of one PDFGenerator used on its own.
genVars == <<callerPc, callsMade, renderedOn>>

\* What an invocation of a command is given; no step of it changes these.
inputVars == <<variant, client, viaMain, command, options, env, now, utilVars, genVars>>

ctlVars == <<pc, outcome, error, exitCode, result>>

dataVars == <<dateRange, report>>

clientVars == <<fetchIdx, currentPage, allResults, inflight, requested, requestLog,
                lastResponse, responses, failedRequest, fetched, completed>>

pdfVars == <<jsreport, initCalls, renderCalls, closeCalls, pdfBuffer>>

fileVars == <<fileWritten>>

mailVars == <<transporter, sendCalls, sendMailCalls, delivered>>

vars == <<inputVars, ctlVars, dataVars, clientVars, pdfVars, fileVars, mailVars>>

NoExit == -1

NoResult == [kind |-> "none"]

NoRequest == [kind |-> "none", page |-> 0, filters |-> "none"]

\* response.data.meta.pagination is absent.
NoMeta == [present |-> FALSE, current_page |-> 0, total_pages |-> 0]

NoResponse == [kind |-> "none", page |-> 0, count |-> 0, meta |-> FALSE, more |-> FALSE,
               pagination |-> NoMeta]

NoReport == [kind |-> "none"]

NoDateRange == [ok |-> FALSE, error |-> "unset"]

\* Two callers share one PDFGenerator.
Callers == {"first", "second"}

(***************************************************************************)
(* The accounting API as the runs explored see it.                         *)
(***************************************************************************)
\* The clock of the runs explored, and two record dates: one inside the
\* interval that last-month resolves to, one before it.
ClockReading == MkDate(2024, 3, 15, 4)

InsideDate == MkDate(2024, 2, 10, 0)

OutsideDate == MkDate(2024, 1, 5, 0)

Kinds == {"expenses", "invoices", "payments", "allInvoices", "probe"}

\* Records the upstream may hold for each kind of fetch.  The upstream is
\* free to ignore the start_date / end_date hint of a fetch.
UpstreamRecords(kind) ==
  CASE kind \in {"expenses", "probe"} ->
         {[date |-> InsideDate, amount |-> 4000, balance |-> 0],
          [date |-> OutsideDate, amount |-> 10000, balance |-> 0]}
    [] kind = "invoices" ->
         {[date |-> InsideDate, amount |-> 50000, balance |-> 0],
          [date |-> OutsideDate, amount |-> 20000, balance |-> 0]}
    [] kind = "payments" ->
         {[date |-> InsideDate, amount |-> 30000, balance |-> 0],
          [date |-> OutsideDate, amount |-> 20000, balance |-> 0]}
    [] kind = "allInvoices" ->
         {[date |-> OutsideDate, amount |-> 50000, balance |-> 1],
          [date |-> InsideDate, amount |-> 50000, balance |-> 0]}

\* The pages the upstream may answer with: at most n records.
PageChoices(kind, n) ==
  {<<>>} \cup {[i \in 1..k |-> r] : k \in 1..n, r \in UpstreamRecords(kind)}

\* Pagination metadata of an answer: none, or current_page and total_pages.
MetaChoices(page) ==
  {NoMeta} \cup
  {[present |-> TRUE, current_page |-> page, total_pages |-> t] : t \in 1..(page + 1)}

(***************************************************************************)
(* The Invoice Ninja client.                                               *)
(***************************************************************************)
\* The fetches of one invocation, in the order the code awaits them.
FetchPlan ==
  CASE command = "test" -> <<"probe">>
    [] command \in {"report", "test-inform"} /\ variant = "ts" ->
         <<"expenses", "invoices", "payments", "allInvoices">>
    [] command = "report" /\ variant = "js" -> <<"expenses">>
    [] command = "getExpenses" -> <<"expenses">>
    [] command = "getInvoices" -> <<"invoices">>
    [] OTHER -> <<>>

\* filters.per_page || this.perPage
PerPageOf(kind) == IF kind = "probe" THEN 1 ELSE PerPage

\* fetchAllPages as a plausible slip would have it: the loop stops one page
\* short of total_pages.
fetchAllPagesStopsShort(all, results, pagination) ==
  IF Len(results) = 0
    THEN [allResults |-> all, hasMorePages |-> FALSE]
    ELSE [allResults |-> all \o results,
          hasMorePages |-> pagination.present
                           /\ pagination.current_page + 1 < pagination.total_pages]

\* One turn of the loop of fetchAllPages on an answer: the new allResults and
\* whether the loop goes on to the next page.
fetchAllPages(all, results, pagination) ==
  IF Len(results) = 0
    THEN [allResults |-> all, hasMorePages |-> FALSE]
    ELSE [allResults |-> all \o results,
          hasMorePages |-> pagination.present
                           /\ pagination.current_page < pagination.total_pages]

\* getExpensesLoop as a plausible slip would have it: without metadata the
\* loop goes on while the pages come back full.
getExpensesLoopFullPages(all, expenses, pagination, perPage) ==
  LET more == pagination.present /\ pagination.current_page < pagination.total_pages
  IN  [allResults |-> all \o expenses,
       hasMorePages |-> IF ~pagination.present
                          THEN Len(expenses) >= perPage
                          ELSE more]

\* One turn of the loop written out in getExpenses and getInvoices.
getExpensesLoop(all, expenses, pagination, perPage) ==
  LET more == pagination.present /\ pagination.current_page < pagination.total_pages
  IN  [allResults |-> all \o expenses,
       hasMorePages |-> IF ~pagination.present /\ Len(expenses) < perPage
                          THEN FALSE
                          ELSE more]

\* getExpenses without pagination: one request, its data returned.
getExpensesSingle(expenses) == [allResults |-> expenses, hasMorePages |-> FALSE]

LoopTurn(all, data, pagination, perPage) ==
  CASE client = "helper" -> fetchAllPages(all, data, pagination)
    [] client = "inline" -> getExpensesLoop(all, data, pagination, perPage)
    [] OTHER -> getExpensesSingle(data)

CurrentKind == FetchPlan[fetchIdx]

\* The filters a fetch is called with: the period's start_date and end_date
\* for the three period fetches of index.ts, { per_page: 1 } for the probe,
\* none for getInvoices({}), for getExpenses() of index.js and for a caller
\* of the client that passes none.
FiltersOf(kind) ==
  CASE kind = "probe" -> "per_page"
    [] kind \in {"expenses", "invoices", "payments"}
       /\ variant = "ts" /\ command \in {"report", "test-inform"} -> "period"
    [] OTHER -> "none"

Request(kind, page) == [kind |-> kind, page |-> page, filters |-> FiltersOf(kind)]

CurrentRequest == Request(CurrentKind, currentPage)

\* Records received so far in the run.
ReceivedCount ==
  Len(fetched["expenses"]) + Len(fetched["invoices"]) + Len(fetched["payments"])
  + Len(fetched["allInvoices"]) + Len(fetched["probe"]) + Len(allResults)

(***************************************************************************)
(* How an operation ends.                                                  *)
(***************************************************************************)
\* The method invoked returns res to its caller.
Return(res) ==
  /\ result' = res
  /\ outcome' = "returned"
  /\ error' = error
  /\ exitCode' = exitCode
  /\ pc' = IF viaMain THEN "main_return" ELSE "done"

\* An error e is thrown inside the method invoked.  testConnections catches
\* it and returns a failed result; generateAndSendReport and testInform log
\* it and throw it again; a fetch called directly lets it through.
Raise(e) ==
  /\ error' = e
  /\ exitCode' = exitCode
  /\ IF command = "test"
       THEN /\ result' = [kind |-> "connections", invoiceNinja |-> FALSE,
                          email |-> FALSE, error |-> e]
            /\ outcome' = "returned"
            /\ pc' = IF viaMain THEN "main_return" ELSE "done"
       ELSE /\ result' = result
            /\ outcome' = "threw"
            /\ pc' = IF viaMain THEN "main_catch" ELSE "done"

(***************************************************************************)
(* main and the constructor.                                               *)
(***************************************************************************)
\* new HOAInformAutomation(): the InvoiceNinjaClient constructor throws when
\* the URL or the token is missing; the PDFGenerator and EmailSender
\* constructors check nothing.  In main the constructor runs outside the
\* try block, so its error rejects main's promise and Node ends with code 1.
Construct ==
  /\ pc = "start"
  /\ IF env.api
       THEN /\ pc' = "call"
            /\ UNCHANGED <<outcome, error, exitCode, result>>
       ELSE /\ pc' = "done"
            /\ outcome' = "threw"
            /\ error' = "Invoice Ninja configuration missing"
            /\ exitCode' = IF viaMain THEN 1 ELSE exitCode
            /\ result' = result
  /\ UNCHANGED <<inputVars, dataVars, clientVars, pdfVars, fileVars, mailVars>>

\* The commands main knows.
KnownCommands == IF variant = "ts" THEN {"test", "test-inform", "report"} ELSE {"test", "report"}

\* main's else branch: the usage text.
Usage ==
  /\ pc = "call"
  /\ viaMain
  /\ command \notin KnownCommands
  /\ pc' = "done"
  /\ outcome' = "usage"
  /\ exitCode' = 0
  /\ UNCHANGED <<error, result>>
  /\ UNCHANGED <<inputVars, dataVars, clientVars, pdfVars, fileVars, mailVars>>

\* After the awaited method has returned: main prints the summary.  The js
\* main reads result.stats.period without a test, which throws a TypeError
\* inside the try block when the result carries no stats.
MainReturn ==
  /\ pc = "main_return"
  /\ pc' = "done"
  /\ IF variant = "js" /\ command = "report" /\ ~result.hasStats
       THEN /\ exitCode' = 1
            /\ error' = "TypeError: Cannot read properties of undefined"
       ELSE /\ exitCode' = 0
            /\ error' = error
  /\ UNCHANGED <<outcome, result>>
  /\ UNCHANGED <<inputVars, dataVars, clientVars, pdfVars, fileVars, mailVars>>

\* main's catch block: process.exit(1).
MainCatch ==
  /\ pc = "main_catch"
  /\ pc' = "done"
  /\ exitCode' = 1
  /\ UNCHANGED <<outcome, error, result>>
  /\ UNCHANGED <<inputVars, dataVars, clientVars, pdfVars, fileVars, mailVars>>

(***************************************************************************)
(* Entry of the methods.                                                   *)
(***************************************************************************)
StartFetch(idx) ==
  /\ fetchIdx' = idx
  /\ currentPage' = 1
  /\ allResults' = <<>>
  /\ requested' = <<>>
  /\ responses' = <<>>
  /\ UNCHANGED <<inflight, requestLog, lastResponse, failedRequest, fetched, completed>>

\* testConnections: the probe getExpenses({ per_page: 1 }).
testConnections ==
  /\ pc = "call"
  /\ command = "test"
  /\ pc' = "fetch_issue"
  /\ StartFetch(1)
  /\ UNCHANGED <<outcome, error, exitCode, result>>
  /\ UNCHANGED <<inputVars, dataVars, pdfVars, fileVars, mailVars>>

\* generateAndSendReport and testInform up to their first await: the period
\* is resolved, then the first fetch starts.
ResolvePeriod ==
  LET range == getDateRange(options.period, options.customRange, now)
  IN  /\ dateRange' = range
      /\ report' = report
      /\ IF range.ok
           THEN /\ pc' = "fetch_issue"
                /\ StartFetch(1)
                /\ UNCHANGED <<outcome, error, exitCode, result>>
           ELSE /\ Raise(range.error)
                /\ UNCHANGED clientVars
      /\ UNCHANGED <<inputVars, pdfVars, fileVars, mailVars>>

generateAndSendReport ==
  /\ pc = "call"
  /\ command = "report"
  /\ ResolvePeriod

testInform ==
  /\ pc = "call"
  /\ command = "test-inform"
  /\ variant = "ts"
  /\ ResolvePeriod

\* A caller of the client itself: getExpenses(filters) or getInvoices(filters).
getExpenses ==
  /\ pc = "call"
  /\ ~viaMain
  /\ command \in {"getExpenses", "getInvoices"}
  /\ pc' = "fetch_issue"
  /\ StartFetch(1)
  /\ UNCHANGED <<outcome, error, exitCode, result>>
  /\ UNCHANGED <<inputVars, dataVars, pdfVars, fileVars, mailVars>>

(***************************************************************************)
(* The pagination loop of one fetch.                                       *)
(***************************************************************************)
\* FetchIssue as a plausible slip would have it: the first request of the
\* next fetch leaves together with the current one (the fetches started
\* side by side and awaited afterwards).
FetchIssueSideBySide ==
  LET ahead == IF fetchIdx < Len(FetchPlan)
                 THEN <<Request(FetchPlan[fetchIdx + 1], 1)>>
                 ELSE <<>>
  IN  /\ pc = "fetch_issue"
      /\ pc' = "fetch_wait"
      /\ inflight' = inflight \cup {CurrentRequest} \cup {ahead[i] : i \in DOMAIN ahead}
      /\ requested' = Append(requested, currentPage)
      /\ requestLog' = Append(requestLog, CurrentRequest) \o ahead
      /\ UNCHANGED <<fetchIdx, currentPage, allResults, lastResponse, responses,
                     failedRequest, fetched, completed>>
      /\ UNCHANGED <<outcome, error, exitCode, result>>
      /\ UNCHANGED <<inputVars, dataVars, pdfVars, fileVars, mailVars>>

\* this.client.get(endpoint, { params }) is sent for the current page.
FetchIssue ==
  /\ pc = "fetch_issue"
  /\ pc' = "fetch_wait"
  /\ inflight' = inflight \cup {CurrentRequest}
  /\ requested' = Append(requested, currentPage)
  /\ requestLog' = Append(requestLog, CurrentRequest)
  /\ UNCHANGED <<fetchIdx, currentPage, allResults, lastResponse, responses,
                 failedRequest, fetched, completed>>
  /\ UNCHANGED <<outcome, error, exitCode, result>>
  /\ UNCHANGED <<inputVars, dataVars, pdfVars, fileVars, mailVars>>

\* Where the flow goes once the last fetch of the plan has returned.
AfterFetches(value) ==
  CASE command = "test" ->
         /\ pc' = "verify"
         /\ UNCHANGED <<outcome, error, exitCode, result>>
    [] command \in {"report", "test-inform"} ->
         /\ pc' = "assemble"
         /\ UNCHANGED <<outcome, error, exitCode, result>>
    [] OTHER -> Return([kind |-> "records", value |-> value])

\* The request is answered with a page of data: one turn of the loop.  The
\* upstream announces a further page only while the run has pages left, and
\* hands out records only while the run has records left.
FetchPage ==
  /\ pc = "fetch_wait"
  /\ \E data \in PageChoices(CurrentKind, PerPageOf(CurrentKind)),
        pagination \in MetaChoices(currentPage) :
       LET turn == LoopTurn(allResults, data, pagination, PerPageOf(CurrentKind))
       IN  /\ turn.hasMorePages => Len(requestLog) - fetchIdx < MaxExtraPages
           /\ ReceivedCount + Len(data) <= MaxRecords
           /\ inflight' = inflight \ {CurrentRequest}
           /\ lastResponse' = [kind |-> CurrentKind, page |-> currentPage,
                               count |-> Len(data), meta |-> pagination.present,
                               more |-> turn.hasMorePages, pagination |-> pagination]
           /\ failedRequest' = failedRequest
           /\ IF turn.hasMorePages
                THEN /\ currentPage' = currentPage + 1
                     /\ allResults' = turn.allResults
                     /\ pc' = "fetch_issue"
                     /\ responses' = Append(responses, [page |-> currentPage, data |-> data,
                                                        pagination |-> pagination])
                     /\ UNCHANGED <<fetchIdx, requested, requestLog, fetched, completed>>
                     /\ UNCHANGED <<outcome, error, exitCode, result>>
                ELSE /\ fetched' = [fetched EXCEPT ![CurrentKind] = turn.allResults]
                     /\ completed' = completed \cup {CurrentKind}
                     /\ requestLog' = requestLog
                     /\ IF fetchIdx < Len(FetchPlan)
                          THEN /\ fetchIdx' = fetchIdx + 1
                               /\ currentPage' = 1
                               /\ allResults' = <<>>
                               /\ requested' = <<>>
                               /\ responses' = <<>>
                               /\ pc' = "fetch_issue"
                               /\ UNCHANGED <<outcome, error, exitCode, result>>
                          ELSE /\ UNCHANGED <<fetchIdx, currentPage, requested>>
                               /\ responses' = Append(responses,
                                    [page |-> currentPage, data |-> data,
                                     pagination |-> pagination])
                               /\ allResults' = turn.allResults
                               /\ AfterFetches(turn.allResults)
  /\ UNCHANGED <<inputVars, dataVars, pdfVars, fileVars, mailVars>>

\* FetchFail as a plausible slip would have it: the failed request is sent
\* again instead of the error being thrown.
FetchFailRetry ==
  /\ pc = "fetch_wait"
  /\ pc' = "fetch_issue"
  /\ inflight' = inflight \ {CurrentRequest}
  /\ failedRequest' = CurrentRequest
  /\ lastResponse' = [kind |-> CurrentKind, page |-> currentPage, count |-> 0,
                      meta |-> FALSE, more |-> FALSE, pagination |-> NoMeta]
  /\ error' = "UpstreamFetchError"
  /\ UNCHANGED <<outcome, exitCode, result>>
  /\ UNCHANGED <<fetchIdx, currentPage, allResults, requested, requestLog, responses,
                 fetched, completed>>
  /\ UNCHANGED <<inputVars, dataVars, pdfVars, fileVars, mailVars>>

\* The request fails (network, authentication, server error).  The catch
\* block of getExpenses / getInvoices logs the error and throws it again.
FetchFail ==
  /\ pc = "fetch_wait"
  /\ inflight' = inflight \ {CurrentRequest}
  /\ failedRequest' = CurrentRequest
  /\ lastResponse' = [kind |-> CurrentKind, page |-> currentPage, count |-> 0,
                      meta |-> FALSE, more |-> FALSE, pagination |-> NoMeta]
  /\ Raise("UpstreamFetchError")
  /\ UNCHANGED <<fetchIdx, currentPage, allResults, requested, requestLog, responses,
                 fetched, completed>>
  /\ UNCHANGED <<inputVars, dataVars, pdfVars, fileVars, mailVars>>

(***************************************************************************)
(* Filtering and the report data.                                          *)
(***************************************************************************)
\* ReportData as a plausible slip would have it: the unpaid invoices are
\* taken from the period's invoices only.
ReportDataFiltersUnpaid ==
  LET filteredExpenses == filterExpensesByDate(fetched["expenses"], dateRange.start, dateRange.end)
      filteredInvoices == filterInvoicesByDate(fetched["invoices"], dateRange.start, dateRange.end)
      filteredPayments == filterPaymentsByDate(fetched["payments"], dateRange.start, dateRange.end)
      unpaidInvoices == getUnpaidInvoices(
        filterInvoicesByDate(fetched["allInvoices"], dateRange.start, dateRange.end))
      sortedExpenses == sortByDate(filteredExpenses, "asc")
      sortedInvoices == sortByDate(filteredInvoices, "asc")
      sortedPayments == sortByDate(filteredPayments, "asc")
      totalExpenses == calculateTotal(sortedExpenses)
      totalIncome == calculateTotal(sortedInvoices)
      totalPayments == calculateTotal(sortedPayments)
  IN  [kind |-> "report",
       expenses |-> sortedExpenses,
       invoices |-> sortedInvoices,
       payments |-> sortedPayments,
       unpaidInvoices |-> unpaidInvoices,
       totalExpenses |-> totalExpenses,
       totalIncome |-> totalIncome,
       totalPayments |-> totalPayments,
       totalUnpaidBalance |-> SumBalance(unpaidInvoices),
       netAmount |-> IF variant = "ts" THEN Sub(totalPayments, totalExpenses)
                     ELSE totalExpenses]

\* ReportData as a plausible slip would have it: the net amount is the
\* invoiced total less the expenses (accrual) instead of the payments
\* received less the expenses.
ReportDataAccrual ==
  LET filteredExpenses == filterExpensesByDate(fetched["expenses"], dateRange.start, dateRange.end)
      filteredInvoices == filterInvoicesByDate(fetched["invoices"], dateRange.start, dateRange.end)
      filteredPayments == filterPaymentsByDate(fetched["payments"], dateRange.start, dateRange.end)
      unpaidInvoices == getUnpaidInvoices(fetched["allInvoices"])
      sortedExpenses == sortByDate(filteredExpenses, "asc")
      sortedInvoices == sortByDate(filteredInvoices, "asc")
      sortedPayments == sortByDate(filteredPayments, "asc")
      totalExpenses == calculateTotal(sortedExpenses)
      totalIncome == calculateTotal(sortedInvoices)
      totalPayments == calculateTotal(sortedPayments)
  IN  [kind |-> "report",
       expenses |-> sortedExpenses,
       invoices |-> sortedInvoices,
       payments |-> sortedPayments,
       unpaidInvoices |-> unpaidInvoices,
       totalExpenses |-> totalExpenses,
       totalIncome |-> totalIncome,
       totalPayments |-> totalPayments,
       totalUnpaidBalance |-> SumBalance(unpaidInvoices),
       netAmount |-> IF variant = "ts" THEN Sub(totalIncome, totalExpenses)
                     ELSE totalExpenses]

\* The report data of the js variant (expenses only) and of the ts variant.
ReportData ==
  LET filteredExpenses == filterExpensesByDate(fetched["expenses"], dateRange.start, dateRange.end)
      filteredInvoices == filterInvoicesByDate(fetched["invoices"], dateRange.start, dateRange.end)
      filteredPayments == filterPaymentsByDate(fetched["payments"], dateRange.start, dateRange.end)
      unpaidInvoices == getUnpaidInvoices(fetched["allInvoices"])
      sortedExpenses == sortByDate(filteredExpenses, "asc")
      sortedInvoices == sortByDate(filteredInvoices, "asc")
      sortedPayments == sortByDate(filteredPayments, "asc")
      totalExpenses == calculateTotal(sortedExpenses)
      totalIncome == calculateTotal(sortedInvoices)
      totalPayments == calculateTotal(sortedPayments)
  IN  [kind |-> "report",
       expenses |-> sortedExpenses,
       invoices |-> sortedInvoices,
       payments |-> sortedPayments,
       unpaidInvoices |-> unpaidInvoices,
       totalExpenses |-> totalExpenses,
       totalIncome |-> totalIncome,
       totalPayments |-> totalPayments,
       totalUnpaidBalance |-> SumBalance(unpaidInvoices),
       netAmount |-> IF variant = "ts" THEN Sub(totalPayments, totalExpenses)
                     ELSE totalExpenses]

NoRecordsResult ==
  [kind |-> "report", success |-> FALSE, hasStats |-> FALSE,
   message |-> "No financial records found for the selected period"]

\* The success result: its stats carry the totals of the report data.
SuccessResult ==
  [kind |-> "report", success |-> TRUE, hasStats |-> TRUE,
   message |-> "Report generated and sent successfully",
   totalExpenses |-> report.totalExpenses,
   totalUnpaidBalance |-> report.totalUnpaidBalance,
   netAmount |-> report.netAmount]

\* From the return of the last fetch to the call of the PDF generator:
\* filter, the test for an empty period, sort and totals.
Assemble ==
  /\ pc = "assemble"
  /\ LET data == ReportData
     IN  IF data.expenses = <<>> /\ data.invoices = <<>> /\ data.payments = <<>>
           THEN /\ Return(NoRecordsResult)
                /\ report' = report
           ELSE /\ report' = data
                /\ pc' = "pdf_generate"
                /\ UNCHANGED <<outcome, error, exitCode, result>>
  /\ dateRange' = dateRange
  /\ UNCHANGED <<inputVars, clientVars, pdfVars, fileVars, mailVars>>

(***************************************************************************)
(* The PDF generator.                                                      *)
(***************************************************************************)
\* generateFinancialReport up to its first await, `await this.init()`: init
\* returns at once when the handle is set, otherwise it creates the engine,
\* stores it in the handle and awaits the engine's init.
PdfGenerate ==
  /\ pc = "pdf_generate"
  /\ IF jsreport # "null"
       THEN /\ pc' = "render_wait"
            /\ renderCalls' = renderCalls + 1
            /\ UNCHANGED <<jsreport, initCalls>>
       ELSE /\ pc' = "init_wait"
            /\ jsreport' = "created"
            /\ initCalls' = initCalls + 1
            /\ renderCalls' = renderCalls
  /\ UNCHANGED <<closeCalls, pdfBuffer>>
  /\ UNCHANGED <<outcome, error, exitCode, result>>
  /\ UNCHANGED <<inputVars, dataVars, clientVars, fileVars, mailVars>>

\* The engine's init resolves; the template is built and render is called.
InitOk ==
  /\ pc = "init_wait"
  /\ pc' = "render_wait"
  /\ jsreport' = "ready"
  /\ renderCalls' = renderCalls + 1
  /\ UNCHANGED <<initCalls, closeCalls, pdfBuffer>>
  /\ UNCHANGED <<outcome, error, exitCode, result>>
  /\ UNCHANGED <<inputVars, dataVars, clientVars, fileVars, mailVars>>

\* The engine's init rejects: init() throws, the handle keeps the engine.
InitFail ==
  /\ pc = "init_wait"
  /\ jsreport' = "failed"
  /\ Raise("InitError")
  /\ UNCHANGED <<initCalls, renderCalls, closeCalls, pdfBuffer>>
  /\ UNCHANGED <<inputVars, dataVars, clientVars, fileVars, mailVars>>

\* AfterRender as a plausible slip would have it: the mail is sent first
\* and the file is left for later.
AfterRenderMailFirst == IF command = "test-inform" THEN "write_wait" ELSE "send"

\* Where the flow goes once the PDF bytes are there: fs.writeFile when the
\* file is wanted (always in testInform), otherwise the mail.
AfterRender ==
  IF command = "test-inform" \/ options.saveToFile THEN "write_wait" ELSE "send"

\* render resolves with the PDF bytes.
RenderOk ==
  /\ pc = "render_wait"
  /\ pdfBuffer' = TRUE
  /\ pc' = AfterRender
  /\ UNCHANGED <<jsreport, initCalls, renderCalls, closeCalls>>
  /\ UNCHANGED <<outcome, error, exitCode, result>>
  /\ UNCHANGED <<inputVars, dataVars, clientVars, fileVars, mailVars>>

\* RenderFail as a plausible slip would have it: the catch block logs the
\* error and does not throw it again, so the caller goes on without a PDF.
RenderFailSwallowed ==
  /\ pc = "render_wait"
  /\ pc' = AfterRender
  /\ error' = "RenderError"
  /\ UNCHANGED <<outcome, exitCode, result>>
  /\ UNCHANGED <<inputVars, dataVars, clientVars, pdfVars, fileVars, mailVars>>

\* render rejects (a timeout included): the catch block of
\* generateFinancialReport logs the error and throws it again.
RenderFail ==
  /\ pc = "render_wait"
  /\ Raise("RenderError")
  /\ UNCHANGED <<inputVars, dataVars, clientVars, pdfVars, fileVars, mailVars>>

\* AfterWrite as a plausible slip would have it: testInform keeps the mail
\* step of generateAndSendReport.
AfterWriteAlwaysMail == "send"

\* Where the flow goes once the file is written: the mail in
\* generateAndSendReport, the cleanup in testInform.
AfterWrite == IF command = "test-inform" THEN "close" ELSE "send"

\* fs.writeFile resolves.
WriteOk ==
  /\ pc = "write_wait"
  /\ fileWritten' = TRUE
  /\ pc' = AfterWrite
  /\ UNCHANGED <<outcome, error, exitCode, result>>
  /\ UNCHANGED <<inputVars, dataVars, clientVars, pdfVars, mailVars>>

\* fs.writeFile rejects.
WriteFail ==
  /\ pc = "write_wait"
  /\ Raise("WriteError")
  /\ UNCHANGED <<inputVars, dataVars, clientVars, pdfVars, fileVars, mailVars>>

\* PDFGenerator.close up to its await: the engine's close is called when the
\* handle is set.
Close ==
  /\ pc = "close"
  /\ IF jsreport # "null"
       THEN /\ closeCalls' = closeCalls + 1
            /\ pc' = "close_wait"
            /\ UNCHANGED <<outcome, error, exitCode, result>>
       ELSE /\ closeCalls' = closeCalls
            /\ Return(SuccessResult)
  /\ UNCHANGED <<jsreport, initCalls, renderCalls, pdfBuffer>>
  /\ UNCHANGED <<inputVars, dataVars, clientVars, fileVars, mailVars>>

\* The engine's close resolves: the handle is cleared and the method returns
\* its success result.
CloseOk ==
  /\ pc = "close_wait"
  /\ jsreport' = "null"
  /\ Return(SuccessResult)
  /\ UNCHANGED <<initCalls, renderCalls, closeCalls, pdfBuffer>>
  /\ UNCHANGED <<inputVars, dataVars, clientVars, fileVars, mailVars>>

\* The engine's close rejects.
CloseFail ==
  /\ pc = "close_wait"
  /\ Raise("CloseError")
  /\ UNCHANGED <<inputVars, dataVars, clientVars, pdfVars, fileVars, mailVars>>

(***************************************************************************)
(* The e-mail sender.                                                      *)
(***************************************************************************)
\* EmailSender.init: TRUE when it throws, which it does when no transporter
\* exists yet and host, user or password is missing.
InitThrows == ~transporter /\ ~env.smtp

\* The `to` of the mail: index.ts passes `emailTo || undefined`, index.js
\* passes emailTo itself, which is null when the caller gave none; the
\* default of the destructuring applies to undefined only.
Recipient ==
  IF options.emailTo THEN "caller"
  ELSE IF variant = "ts" /\ env.emailTo THEN "default"
  ELSE "none"

\* sendFinancialReport / sendExpenseReport up to the await of sendMail.
Send ==
  /\ pc = "send"
  /\ sendCalls' = sendCalls + 1
  /\ delivered' = delivered
  /\ IF InitThrows
       THEN /\ Raise("Email configuration missing")
            /\ UNCHANGED <<transporter, sendMailCalls>>
       ELSE /\ transporter' = TRUE
            /\ IF Recipient = "none"
                 THEN /\ Raise("Recipient email address is required")
                      /\ sendMailCalls' = sendMailCalls
                 ELSE /\ sendMailCalls' = sendMailCalls + 1
                      /\ pc' = "send_wait"
                      /\ UNCHANGED <<outcome, error, exitCode, result>>
  /\ UNCHANGED <<inputVars, dataVars, clientVars, pdfVars, fileVars>>

\* sendMail resolves; generateAndSendReport goes on to the cleanup.
SendOk ==
  /\ pc = "send_wait"
  /\ delivered' = TRUE
  /\ pc' = "close"
  /\ UNCHANGED <<transporter, sendCalls, sendMailCalls>>
  /\ UNCHANGED <<outcome, error, exitCode, result>>
  /\ UNCHANGED <<inputVars, dataVars, clientVars, pdfVars, fileVars>>

\* sendMail rejects: the catch block logs the error and throws it again.
SendFail ==
  /\ pc = "send_wait"
  /\ Raise("DeliveryError")
  /\ UNCHANGED <<inputVars, dataVars, clientVars, pdfVars, fileVars, mailVars>>

\* verifyConnection up to the await of transporter.verify(): init() is called
\* before the try block, so its error leaves verifyConnection.
Verify ==
  /\ pc = "verify"
  /\ IF InitThrows
       THEN /\ Raise("Email configuration missing")
            /\ transporter' = transporter
       ELSE /\ transporter' = TRUE
            /\ pc' = "verify_wait"
            /\ UNCHANGED <<outcome, error, exitCode, result>>
  /\ UNCHANGED <<sendCalls, sendMailCalls, delivered>>
  /\ UNCHANGED <<inputVars, dataVars, clientVars, pdfVars, fileVars>>

\* transporter.verify() resolves: testConnections returns both flags TRUE.
VerifyOk ==
  /\ pc = "verify_wait"
  /\ Return([kind |-> "connections", invoiceNinja |-> TRUE, email |-> TRUE, error |-> ""])
  /\ UNCHANGED <<inputVars, dataVars, clientVars, pdfVars, fileVars, mailVars>>

\* transporter.verify() rejects: verifyConnection returns false.
VerifyFail ==
  /\ pc = "verify_wait"
  /\ Return([kind |-> "connections", invoiceNinja |-> TRUE, email |-> FALSE, error |-> ""])
  /\ UNCHANGED <<inputVars, dataVars, clientVars, pdfVars, fileVars, mailVars>>

(***************************************************************************)
(* Initial states and the specification.                                   *)
(***************************************************************************)
\* The invocations explored: main with each command, and library callers of
\* generateAndSendReport and of the client's fetches.
Invocations ==
  {[viaMain |-> TRUE, command |-> c, saveToFile |-> c = "report", emailTo |-> FALSE] :
     c \in {"test", "test-inform", "report", "help"}}
  \cup
  {[viaMain |-> FALSE, command |-> "report", saveToFile |-> s, emailTo |-> e] :
     s \in BOOLEAN, e \in BOOLEAN}
  \cup
  {[viaMain |-> FALSE, command |-> c, saveToFile |-> FALSE, emailTo |-> FALSE] :
     c \in {"getExpenses", "getInvoices"}}

\* The period arguments explored: one that resolves, an unknown token, and
\* custom without a range.
PeriodChoices == {"last-month", "weekly", "custom"}

\* The customRange arguments explored: none, one bound missing, and both
\* bounds given as ISO strings.
CustomRangeChoices ==
  {NoRange,
   [isNull |-> FALSE, start |-> NoDate, end |-> MkDate(2024, 2, 29, 0)],
   [isNull |-> FALSE, start |-> MkDate(2024, 2, 1, 0), end |-> NoDate],
   [isNull |-> FALSE, start |-> MkDate(2024, 2, 1, 0), end |-> MkDate(2024, 2, 29, 0)]}

Init ==
  /\ variant \in {"js", "ts"}
  /\ client \in {"single", "inline", "helper"}
  /\ \E inv \in Invocations :
       /\ viaMain = inv.viaMain
       /\ command = inv.command
       /\ \E p \in PeriodChoices, range \in CustomRangeChoices :
            /\ (inv.viaMain \/ p # "custom") => range = NoRange
            /\ options = [period |-> p, customRange |-> range,
                          saveToFile |-> inv.saveToFile, emailTo |-> inv.emailTo]
  /\ \/ variant = "js" /\ client = "single" /\ command \notin {"getExpenses", "getInvoices"}
     \/ variant = "ts" /\ client = "helper"
     \/ variant = "ts" /\ client = "inline" /\ command \in {"getExpenses", "getInvoices", "test"}
  /\ command \in {"test", "help", "getExpenses", "getInvoices"} => options.period = "last-month"
  /\ env \in [api : BOOLEAN, smtp : BOOLEAN, emailTo : BOOLEAN]
  /\ now = ClockReading
  /\ pc = "start"
  /\ outcome = "none"
  /\ error = ""
  /\ exitCode = NoExit
  /\ result = NoResult
  /\ dateRange = NoDateRange
  /\ report = NoReport
  /\ fetchIdx = 0
  /\ currentPage = 1
  /\ allResults = <<>>
  /\ inflight = {}
  /\ requested = <<>>
  /\ requestLog = <<>>
  /\ lastResponse = NoResponse
  /\ responses = <<>>
  /\ failedRequest = NoRequest
  /\ fetched = [k \in Kinds |-> <<>>]
  /\ completed = {}
  /\ jsreport = "null"
  /\ initCalls = 0
  /\ renderCalls = 0
  /\ closeCalls = 0
  /\ pdfBuffer = FALSE
  /\ fileWritten = FALSE
  /\ transporter = FALSE
  /\ sendCalls = 0
  /\ sendMailCalls = 0
  /\ delivered = FALSE
  /\ argExpenses = <<>>
  /\ argStart = InvalidDate
  /\ argEnd = InvalidDate
  /\ argOrder = "desc"
  /\ called = <<>>
  /\ returned = <<>>
  /\ callerPc = [c \in Callers |-> "idle"]
  /\ callsMade = [c \in Callers |-> 0]
  /\ renderedOn = {}

Next ==
  \/ Construct
  \/ Usage
  \/ MainReturn
  \/ MainCatch
  \/ testConnections
  \/ generateAndSendReport
  \/ testInform
  \/ getExpenses
  \/ FetchIssue
  \/ FetchPage
  \/ FetchFail
  \/ Assemble
  \/ PdfGenerate
  \/ InitOk
  \/ InitFail
  \/ RenderOk
  \/ RenderFail
  \/ WriteOk
  \/ WriteFail
  \/ Send
  \/ SendOk
  \/ SendFail
  \/ Close
  \/ CloseOk
  \/ CloseFail
  \/ Verify
  \/ VerifyOk
  \/ VerifyFail

Spec == Init /\ [][Next]_vars

(***************************************************************************)
(* The data utilities (dataUtils) called on their own.                     *)
(***************************************************************************)
\* Longest record list the utilities are called on.
MaxLen == 3

\* category_name / vendor_name of a record that has none.
NoName == ""

\* Keys that name a member every JavaScript object inherits: grouped[key] is
\* that member, not a bucket.
InheritedKeys == {"constructor"}

\* The interval the record lists are filtered by, as parseISO gives it for
\* 2024-02-01 and 2024-02-29.
SampleStart == MkDate(2024, 2, 1, 0)

SampleEnd == MkDate(2024, 2, 29, 0)

\* The records the lists are made of: dated at the start, at the end, inside,
\* before and after the interval, without a date, with an unreadable date,
\* without an amount, with the amount "N/A", without category or vendor.
ExpenseSamples ==
  {[date |-> SampleStart, amount |-> 10000, category |-> "Utilities", vendor |-> "Acme"],
   [date |-> SampleEnd, amount |-> 4000, category |-> "Landscaping", vendor |-> NoName],
   [date |-> MkDate(2024, 2, 10, 0), amount |-> -2500, category |-> NoName, vendor |-> "Acme"],
   [date |-> MkDate(2024, 1, 31, 0), amount |-> 7500, category |-> "Utilities", vendor |-> "Greens"],
   [date |-> MkDate(2024, 3, 1, 0), amount |-> NoAmount, category |-> "Landscaping", vendor |-> "Greens"],
   [date |-> NoDate, amount |-> UnparsableAmount, category |-> NoName, vendor |-> NoName],
   [date |-> BadDate, amount |-> 5000, category |-> "Utilities", vendor |-> "Acme"],
   [date |-> MkDate(2024, 2, 10, 0), amount |-> 5000, category |-> "constructor", vendor |-> "Acme"]}

ExpenseLists == UNION {[1..n -> ExpenseSamples] : n \in 0..MaxLen}

\* parseISO(expense.date || expense.expense_date) of src/utils/dataUtils.js
\* is called with undefined when the record has neither field, and date-fns 3
\* then fails on undefined.split; the TypeScript version passes '' instead.
DateArgThrows(expense) == variant = "js" /\ expense.date = NoDate

\* forEach step of groupByCategory / groupByVendor / groupByMonth: the bucket
\* of `key` is created when grouped has none, then the record is pushed and
\* its amount added.  Buckets are kept in insertion order.
AddToGroup(grouped, key, expense) ==
  IF \E i \in DOMAIN grouped : grouped[i].key = key
    THEN [i \in DOMAIN grouped |->
            IF grouped[i].key = key
              THEN [key |-> key,
                    expenses |-> Append(grouped[i].expenses, expense),
                    total |-> Add(grouped[i].total, parseFloat(expense.amount))]
              ELSE grouped[i]]
    ELSE Append(grouped, [key |-> key, expenses |-> <<expense>>,
                          total |-> Add(0, parseFloat(expense.amount))])

CategoryOf(expense) ==
  IF expense.category = NoName THEN "Uncategorized" ELSE expense.category

VendorOf(expense) ==
  IF expense.vendor = NoName THEN "Unknown Vendor" ELSE expense.vendor

\* format(expenseDate, 'yyyy-MM'), as the number yyyymm.
MonthKeyOf(expense) ==
  YearOf(parseISO(expense.date)) * 100 + MonthOf(parseISO(expense.date))

RECURSIVE groupByCategory(_)
groupByCategory(expenses) ==
  IF expenses = <<>> THEN <<>>
  ELSE LET expense == expenses[Len(expenses)]
       IN  AddToGroup(groupByCategory(SubSeq(expenses, 1, Len(expenses) - 1)),
                      CategoryOf(expense), expense)

RECURSIVE groupByVendor(_)
groupByVendor(expenses) ==
  IF expenses = <<>> THEN <<>>
  ELSE LET expense == expenses[Len(expenses)]
       IN  AddToGroup(groupByVendor(SubSeq(expenses, 1, Len(expenses) - 1)),
                      VendorOf(expense), expense)

RECURSIVE groupByMonth(_)
groupByMonth(expenses) ==
  IF expenses = <<>> THEN <<>>
  ELSE LET expense == expenses[Len(expenses)]
       IN  AddToGroup(groupByMonth(SubSeq(expenses, 1, Len(expenses) - 1)),
                      MonthKeyOf(expense), expense)

\* grouped[key].expenses.push throws a TypeError when grouped[key] is a
\* member the object inherits instead of a bucket.
GroupThrows(keys) == \E i \in DOMAIN keys : keys[i] \in InheritedKeys

\* format() of an Invalid Date throws a RangeError.
groupByMonthThrows(expenses) ==
  \E i \in DOMAIN expenses :
    DateArgThrows(expenses[i]) \/ parseISO(expenses[i].date) = InvalidDate

\* The quotient of two numbers, kept exact.
Quotient(a, n) == IF a = NaN THEN [num |-> NaN, den |-> 1] ELSE [num |-> a, den |-> n]

RECURSIVE SumOf(_)
SumOf(amounts) ==
  IF amounts = <<>> THEN 0
  ELSE Add(SumOf(SubSeq(amounts, 1, Len(amounts) - 1)), amounts[Len(amounts)])

\* Math.min(...amounts) and Math.max(...amounts) of a non-empty list: NaN
\* when one of the amounts is NaN.
MathMin(amounts) ==
  IF \E i \in DOMAIN amounts : amounts[i] = NaN THEN NaN
  ELSE CHOOSE a \in {amounts[i] : i \in DOMAIN amounts} :
         \A i \in DOMAIN amounts : a <= amounts[i]

MathMax(amounts) ==
  IF \E i \in DOMAIN amounts : amounts[i] = NaN THEN NaN
  ELSE CHOOSE a \in {amounts[i] : i \in DOMAIN amounts} :
         \A i \in DOMAIN amounts : a >= amounts[i]

getExpenseStats(expenses) ==
  IF Len(expenses) = 0
    THEN [count |-> 0, total |-> 0, average |-> Quotient(0, 1), min |-> 0, max |-> 0]
    ELSE LET amounts == [i \in DOMAIN expenses |-> parseFloat(expenses[i].amount)]
             total == SumOf(amounts)
         IN  [count |-> Len(expenses),
              total |-> total,
              average |-> Quotient(total, Len(expenses)),
              min |-> MathMin(amounts),
              max |-> MathMax(amounts)]

\* What a call gives back: a value, or the error it threw.
Value(v) == [threw |-> FALSE, value |-> v]

Thrown(e) == [threw |-> TRUE, error |-> e]

\* The state of an invocation of a command; no call of a data utility
\* touches it.
runVars == <<ctlVars, dataVars, clientVars, pdfVars, fileVars, mailVars>>

\* A utility called on its own returns res to its caller.
CallReturns(name, res) ==
  /\ called' = Append(called, name)
  /\ returned' = Append(returned, res)
  /\ UNCHANGED <<variant, client, viaMain, command, options, env, now, runVars>>
  /\ UNCHANGED <<argExpenses, argStart, argEnd, argOrder, genVars>>

CallGetDateRange ==
  /\ called = <<>>
  /\ LET range == getDateRange(options.period, options.customRange, now)
     IN  CallReturns("getDateRange",
                     IF range.ok THEN Value([start |-> range.start, end |-> range.end])
                     ELSE Thrown(range.error))

\* filterExpensesByDate on the list, or once more on what it returned.
CallFilterExpensesByDate ==
  /\ \/ called = <<>>
     \/ called = <<"filterExpensesByDate">> /\ ~returned[1].threw
  /\ LET expenses == IF called = <<>> THEN argExpenses ELSE returned[1].value
     IN  CallReturns("filterExpensesByDate",
                     IF \E i \in DOMAIN expenses : DateArgThrows(expenses[i])
                       THEN Thrown("TypeError")
                       ELSE Value(filterExpensesByDate(expenses, argStart, argEnd)))

CallSortByDate ==
  /\ called = <<>>
  /\ CallReturns("sortByDate",
                 IF Len(argExpenses) > 1 /\ \E i \in DOMAIN argExpenses : DateArgThrows(argExpenses[i])
                   THEN Thrown("TypeError")
                   ELSE Value(sortByDate(argExpenses, argOrder)))

CallSortByAmount ==
  /\ called = <<>>
  /\ CallReturns("sortByAmount", Value(sortByAmount(argExpenses, argOrder)))

CallCalculateTotal ==
  /\ called = <<>>
  /\ CallReturns("calculateTotal", Value(calculateTotal(argExpenses)))

CallGetExpenseStats ==
  /\ called = <<>>
  /\ CallReturns("getExpenseStats", Value(getExpenseStats(argExpenses)))

CallGroupByCategory ==
  /\ called = <<>>
  /\ CallReturns("groupByCategory",
                 IF GroupThrows([i \in DOMAIN argExpenses |-> CategoryOf(argExpenses[i])])
                   THEN Thrown("TypeError")
                   ELSE Value(groupByCategory(argExpenses)))

CallGroupByVendor ==
  /\ called = <<>>
  /\ CallReturns("groupByVendor",
                 IF GroupThrows([i \in DOMAIN argExpenses |-> VendorOf(argExpenses[i])])
                   THEN Thrown("TypeError")
                   ELSE Value(groupByVendor(argExpenses)))

CallGroupByMonth ==
  /\ called = <<>>
  /\ CallReturns("groupByMonth",
                 IF groupByMonthThrows(argExpenses)
                   THEN Thrown("RangeError: Invalid time value")
                   ELSE Value(groupByMonth(argExpenses)))

\* The clock readings periods are resolved at.
ClockChoices ==
  {ClockReading, MkDate(2024, 1, 31, 4), MkDate(2023, 3, 31, 4), MkDate(2024, 2, 29, 4),
   MkDate(2023, 12, 31, 9), MkDate(2100, 2, 10, 0), MkDate(2024, 5, 31, 4)}

\* The custom ranges periods are resolved with: those of CustomRangeChoices,
\* one with the bounds swapped and one with an unreadable start.
RangeArguments ==
  CustomRangeChoices \cup
  {[isNull |-> FALSE, start |-> SampleEnd, end |-> SampleStart],
   [isNull |-> FALSE, start |-> BadDate, end |-> SampleEnd]}

\* The call made when no period and no list is of interest.
PlainOptions ==
  [period |-> "current-month", customRange |-> NoRange, saveToFile |-> FALSE,
   emailTo |-> FALSE]

\* A caller of the data utilities: either a period to resolve or a record
\* list, with the interval to filter it by given in order or swapped.
InitData ==
  /\ variant \in {"js", "ts"}
  /\ client = "helper"
  /\ viaMain = FALSE
  /\ command = "dataUtils"
  /\ env = [api |-> TRUE, smtp |-> TRUE, emailTo |-> TRUE]
  /\ \E p \in PeriodTokens \cup {"weekly"}, range \in RangeArguments :
       /\ p # "custom" => range = NoRange
       /\ options = [period |-> p, customRange |-> range, saveToFile |-> FALSE,
                     emailTo |-> FALSE]
  /\ now \in ClockChoices
  /\ argExpenses \in ExpenseLists
  /\ \E interval \in {<<SampleStart, SampleEnd>>, <<SampleEnd, SampleStart>>} :
       argStart = interval[1] /\ argEnd = interval[2]
  /\ argOrder \in {"asc", "desc"}
  /\ (argExpenses # <<>> \/ argStart # SampleStart \/ argOrder # "desc") =>
       (options = PlainOptions /\ now = ClockReading)
  /\ argOrder = "asc" => argStart = SampleStart
  /\ called = <<>>
  /\ returned = <<>>
  /\ callerPc = [c \in Callers |-> "idle"]
  /\ callsMade = [c \in Callers |-> 0]
  /\ renderedOn = {}
  /\ pc = "done"
  /\ outcome = "none"
  /\ error = ""
  /\ exitCode = NoExit
  /\ result = NoResult
  /\ dateRange = NoDateRange
  /\ report = NoReport
  /\ fetchIdx = 0
  /\ currentPage = 1
  /\ allResults = <<>>
  /\ inflight = {}
  /\ requested = <<>>
  /\ requestLog = <<>>
  /\ lastResponse = NoResponse
  /\ responses = <<>>
  /\ failedRequest = NoRequest
  /\ fetched = [k \in Kinds |-> <<>>]
  /\ completed = {}
  /\ jsreport = "null"
  /\ initCalls = 0
  /\ renderCalls = 0
  /\ closeCalls = 0
  /\ pdfBuffer = FALSE
  /\ fileWritten = FALSE
  /\ transporter = FALSE
  /\ sendCalls = 0
  /\ sendMailCalls = 0
  /\ delivered = FALSE

NextData ==
  \/ CallGetDateRange
  \/ CallFilterExpensesByDate
  \/ CallSortByDate
  \/ CallSortByAmount
  \/ CallCalculateTotal
  \/ CallGetExpenseStats
  \/ CallGroupByCategory
  \/ CallGroupByVendor
  \/ CallGroupByMonth

SpecData == InitData /\ [][NextData]_vars

(***************************************************************************)
(* One PDFGenerator used by two callers.  A call of generateFinancialReport *)
(* runs up to its next await and then lets the other caller run, as async  *)
(* functions on one event loop do.  close() is called between reports, not *)
(* during one.                                                             *)
(***************************************************************************)
\* Calls each caller makes at most.
MaxCalls == 2

otherVars == <<variant, client, viaMain, command, options, env, now, utilVars,
               ctlVars, dataVars, clientVars, fileVars, mailVars, pdfBuffer>>

\* generateFinancialReport up to `await this.init()`: init returns at once
\* when the handle is set; otherwise it creates the engine, stores it in the
\* handle and awaits the engine's init.
generateFinancialReport(c) ==
  /\ callerPc[c] = "idle"
  /\ callsMade[c] < MaxCalls
  /\ \A d \in Callers : callerPc[d] # "close_wait"
  /\ callsMade' = [callsMade EXCEPT ![c] = @ + 1]
  /\ IF jsreport # "null"
       THEN /\ callerPc' = [callerPc EXCEPT ![c] = "init_returned"]
            /\ UNCHANGED <<jsreport, initCalls>>
       ELSE /\ callerPc' = [callerPc EXCEPT ![c] = "init_wait"]
            /\ jsreport' = "created"
            /\ initCalls' = initCalls + 1
  /\ UNCHANGED <<renderCalls, closeCalls, renderedOn, otherVars>>

\* init() had returned at once: the template is built and render is called
\* on the engine the handle holds, whatever its state.
InitReturned(c) ==
  /\ callerPc[c] = "init_returned"
  /\ callerPc' = [callerPc EXCEPT ![c] = "render_wait"]
  /\ renderCalls' = renderCalls + 1
  /\ renderedOn' = renderedOn \cup {jsreport}
  /\ UNCHANGED <<jsreport, initCalls, closeCalls, callsMade, otherVars>>

\* The engine's init resolves for the caller that started it: render is
\* called on the initialised engine.
EngineInitResolves(c) ==
  /\ callerPc[c] = "init_wait"
  /\ jsreport' = "ready"
  /\ callerPc' = [callerPc EXCEPT ![c] = "render_wait"]
  /\ renderCalls' = renderCalls + 1
  /\ renderedOn' = renderedOn \cup {"ready"}
  /\ UNCHANGED <<initCalls, closeCalls, callsMade, otherVars>>

\* The engine's init rejects: init() and generateFinancialReport throw, and
\* nothing clears the handle.
EngineInitRejects(c) ==
  /\ callerPc[c] = "init_wait"
  /\ jsreport' = "failed"
  /\ callerPc' = [callerPc EXCEPT ![c] = "idle"]
  /\ UNCHANGED <<initCalls, renderCalls, closeCalls, callsMade, renderedOn, otherVars>>

\* render resolves or rejects: generateFinancialReport returns the bytes or
\* throws the error again.
RenderSettles(c) ==
  /\ callerPc[c] = "render_wait"
  /\ callerPc' = [callerPc EXCEPT ![c] = "idle"]
  /\ UNCHANGED <<pdfVars, callsMade, renderedOn, otherVars>>

\* close() while no report is under way: with the handle set it awaits the
\* engine's close, otherwise it returns.
PdfClose(c) ==
  /\ \A d \in Callers : callerPc[d] = "idle"
  /\ callsMade[c] < MaxCalls
  /\ callsMade' = [callsMade EXCEPT ![c] = @ + 1]
  /\ IF jsreport # "null"
       THEN /\ callerPc' = [callerPc EXCEPT ![c] = "close_wait"]
            /\ closeCalls' = closeCalls + 1
       ELSE /\ UNCHANGED <<callerPc, closeCalls>>
  /\ UNCHANGED <<jsreport, initCalls, renderCalls, renderedOn, otherVars>>

\* The engine's close resolves: the handle is cleared.
EngineCloseResolves(c) ==
  /\ callerPc[c] = "close_wait"
  /\ jsreport' = "null"
  /\ callerPc' = [callerPc EXCEPT ![c] = "idle"]
  /\ UNCHANGED <<initCalls, renderCalls, closeCalls, callsMade, renderedOn, otherVars>>

\* A library caller of the ts variant holds the generator.
InitPdf ==
  /\ Init
  /\ variant = "ts"
  /\ client = "helper"
  /\ ~viaMain
  /\ command = "report"
  /\ options = [period |-> "last-month", customRange |-> NoRange,
                saveToFile |-> FALSE, emailTo |-> FALSE]
  /\ env = [api |-> TRUE, smtp |-> TRUE, emailTo |-> TRUE]

NextPdf ==
  \E c \in Callers :
    \/ generateFinancialReport(c)
    \/ InitReturned(c)
    \/ EngineInitResolves(c)
    \/ EngineInitRejects(c)
    \/ RenderSettles(c)
    \/ PdfClose(c)
    \/ EngineCloseResolves(c)

SpecPdf == InitPdf /\ [][NextPdf]_vars

(***************************************************************************)
(* Properties.                                                             *)
(***************************************************************************)
\* The invocation of the method has ended, by a return or by an error.
Ended == outcome \in {"returned", "threw"}

\* Errors of the steps that come before the mail.
EarlierStepErrors == {"UpstreamFetchError", "InitError", "RenderError", "WriteError"}

\* Rank of a record kind in the order expenses, invoices, payments, all invoices.
KindRank(kind) ==
  CASE kind = "expenses" -> 1
    [] kind = "invoices" -> 2
    [] kind = "payments" -> 3
    [] kind = "allInvoices" -> 4
    [] OTHER -> 0

\* C1: when generateAndSendReport or testInform has ended and the PDF engine
\* was initialised during it (render was reached), the engine's close has
\* been called exactly once, whether the method returned or threw.
C1_ClosedExactlyOnce ==
  (command \in {"report", "test-inform"} /\ Ended /\ renderCalls > 0) => closeCalls = 1

\* C2: generateAndSendReport calls the mail sender only when every fetch of
\* the plan has returned, the PDF bytes exist and the requested file is
\* written; when a fetch, the engine's init, the render or the file write
\* has failed, no mail call is made and the method has thrown that error.
C2_MailOnlyAfterAllSteps ==
  command = "report" =>
    /\ sendCalls > 0 =>
         /\ \A i \in DOMAIN FetchPlan : FetchPlan[i] \in completed
         /\ failedRequest = NoRequest
         /\ pdfBuffer
         /\ options.saveToFile => fileWritten
    /\ error \in EarlierStepErrors =>
         /\ sendCalls = 0
         /\ sendMailCalls = 0
         /\ outcome = "threw"

C2_Witness ==
  /\ command = "report"
  /\ error = "WriteError"
  /\ outcome = "threw"
  /\ pdfBuffer
  /\ sendCalls = 0

\* C3: with saveToFile the file is written before the mail sender is called,
\* so after a failed delivery the file exists and the method has thrown the
\* delivery error.
C3_FileBeforeMail ==
  (command = "report" /\ options.saveToFile) =>
    /\ sendCalls > 0 => fileWritten
    /\ error = "DeliveryError" => (fileWritten /\ outcome = "threw")

C3_Witness ==
  /\ command = "report"
  /\ options.saveToFile
  /\ error = "DeliveryError"
  /\ sendMailCalls = 1
  /\ fileWritten

\* C4: in the four-fetch variant at most one request is in flight, requests
\* are issued in the order expenses, invoices, payments, all invoices, and a
\* request of one kind is issued only when every earlier kind has returned.
C4_SequentialFetches ==
  (variant = "ts" /\ command \in {"report", "test-inform"}) =>
    /\ Cardinality(inflight) <= 1
    /\ \A i, j \in DOMAIN requestLog :
         i < j => KindRank(requestLog[i].kind) <= KindRank(requestLog[j].kind)
    /\ \A i \in DOMAIN requestLog :
         \A k \in {"expenses", "invoices", "payments"} :
           KindRank(k) < KindRank(requestLog[i].kind) => k \in completed

C4_Witness ==
  /\ variant = "ts"
  /\ command = "report"
  /\ inflight = {[kind |-> "allInvoices", page |-> 1, filters |-> "none"]}
  /\ Len(requestLog) = 5

\* C5: without pagination metadata the loop of getExpenses / getInvoices
\* stops only on a page with fewer than per_page records.
C5_StopsOnShortPageOnly ==
  (/\ client \in {"inline", "helper"}
   /\ lastResponse.kind \in {"expenses", "invoices"}
   /\ failedRequest = NoRequest
   /\ ~lastResponse.meta
   /\ ~lastResponse.more) => lastResponse.count < PerPageOf(lastResponse.kind)

C7_MissingSettingsFailConstruction ==
  (~env.api \/ ~env.smtp) => (requestLog = <<>> /\ renderCalls = 0)

\* C8: the `test` command of main ends with exit code 0.
C8_TestExitsZero ==
  (viaMain /\ command = "test" /\ pc = "done") => exitCode = 0

\* C9: when the `report` command ends with the no-records result, nothing
\* was rendered, written or mailed and the exit code is 0.
C9_NoRecordsIsGraceful ==
  (viaMain /\ command = "report" /\ pc = "done" /\ result = NoRecordsResult) =>
    /\ exitCode = 0
    /\ initCalls = 0
    /\ renderCalls = 0
    /\ ~fileWritten
    /\ sendCalls = 0

\* C10: testInform never calls the mail sender nor builds its transporter,
\* and when it has returned success the PDF file is written.
C10_TestInformNeverMails ==
  command = "test-inform" =>
    /\ sendCalls = 0
    /\ sendMailCalls = 0
    /\ ~transporter
    /\ ~delivered
    /\ (result.kind = "report" /\ result.success) => fileWritten

C10_Witness ==
  /\ command = "test-inform"
  /\ result.kind = "report"
  /\ result.success
  /\ fileWritten
  /\ closeCalls = 1

\* The period arguments that do not resolve: a token outside the enumeration,
\* or custom without both a start and an end.
PeriodUnresolvable ==
  \/ options.period \notin PeriodTokens
  \/ /\ options.period = "custom"
     /\ \/ options.customRange = NoRange
        \/ options.customRange.start = NoDate
        \/ options.customRange.end = NoDate

\* C11: when generateAndSendReport or testInform is given a period token
\* outside the enumeration, or custom without both start and end, period
\* resolution fails and the invocation ends with that error; no request to
\* the accounting API, no engine init, no render, no file write and no mail
\* send is ever performed, and main ends with exit code 1.
C11_BadPeriodFailsFirst ==
  ((command = "report" \/ (command = "test-inform" /\ variant = "ts")) /\ PeriodUnresolvable) =>
    /\ requestLog = <<>> /\ inflight = {}
    /\ initCalls = 0 /\ renderCalls = 0
    /\ ~fileWritten
    /\ sendCalls = 0 /\ sendMailCalls = 0
    /\ (pc \notin {"start", "call"} /\ env.api) =>
         /\ outcome = "threw"
         /\ error \in {"Unknown period", "Custom range requires start and end dates"}
         /\ ~dateRange.ok /\ dateRange.error = error
    /\ (pc = "done" /\ viaMain) => exitCode = 1

\* A library call with custom and only an end date has thrown.
C11_Witness ==
  /\ command = "report"
  /\ options.period = "custom"
  /\ options.customRange # NoRange
  /\ options.customRange.start = NoDate
  /\ outcome = "threw"
  /\ error = "Custom range requires start and end dates"
  /\ pc = "done"

\* C12: when the caller gives no recipient, generateAndSendReport sends to
\* the configured default EMAIL_TO; the send fails for a missing recipient
\* only when there is neither a caller recipient nor a configured default.
C12_DefaultRecipientUsed ==
  command = "report" =>
    /\ error = "Recipient email address is required" =>
         (~options.emailTo /\ ~env.emailTo)
    /\ (sendCalls > 0 /\ transporter /\ ~options.emailTo /\ env.emailTo) =>
         sendMailCalls > 0

\* The closed-interval test of the resolved interval.
InResolvedInterval(r) == dateRange.start <= r.date /\ r.date <= dateRange.end

AmountOrZero(r) == IF r.amount \in {NoAmount, UnparsableAmount} THEN 0 ELSE r.amount

RECURSIVE ExpectedTotal(_)
ExpectedTotal(records) ==
  IF records = <<>> THEN 0 ELSE AmountOrZero(Head(records)) + ExpectedTotal(Tail(records))

\* The first utility called on its own, and what it gave back.
FirstCall == IF called = <<>> THEN "none" ELSE called[1]

\* C14: a record whose amount is absent or unparsable contributes 0: the
\* total of calculateTotal and of getExpenseStats and the subtotals of the
\* groupings equal the totals of the remaining records, and calculateTotal
\* and getExpenseStats raise no error.
C14_UnparsableAmountCountsZero ==
  /\ FirstCall = "calculateTotal" =>
       (~returned[1].threw /\ returned[1].value = ExpectedTotal(argExpenses))
  /\ FirstCall = "getExpenseStats" =>
       (~returned[1].threw /\ returned[1].value.total = ExpectedTotal(argExpenses))
  /\ (FirstCall \in {"groupByCategory", "groupByVendor"} /\ ~returned[1].threw) =>
       \A i \in DOMAIN returned[1].value :
         returned[1].value[i].total = ExpectedTotal(returned[1].value[i].expenses)

\* C15: filterExpensesByDate, sortByDate, calculateTotal, getExpenseStats and
\* the groupings by category, vendor and month return without raising for
\* every record list, records without a readable date included.
C15_UtilitiesNeverRaise ==
  \A i \in DOMAIN called : called[i] # "getDateRange" => ~returned[i].threw

\* C16: every interval getDateRange returns has start <= end, for every
\* period token, custom included.
C16_IntervalOrdered ==
  (FirstCall = "getDateRange" /\ ~returned[1].threw) =>
    returned[1].value.start <= returned[1].value.end

\* The records of a list whose date d is readable and has start <= d <= end,
\* in the order of the list.
WithinClosedInterval(records, start, end) ==
  LET Kept(r) == r.date \notin {NoDate, BadDate} /\ start <= r.date /\ r.date <= end
  IN  SelectSeq(records, Kept)

\* C17: filterExpensesByDate returns exactly the records whose date d has
\* start <= d <= end, both ends included, in input order; records without a
\* readable date are dropped and no error is raised.
C17_FilterKeepsClosedInterval ==
  FirstCall = "filterExpensesByDate" =>
    /\ ~returned[1].threw
    /\ returned[1].value = WithinClosedInterval(argExpenses, argStart, argEnd)

\* C18: filtering the list filterExpensesByDate returned once more by the
\* same interval returns that list unchanged.
C18_FilterIdempotent ==
  called = <<"filterExpensesByDate", "filterExpensesByDate">> =>
    /\ ~returned[2].threw
    /\ returned[2].value = returned[1].value

\* A list was filtered twice, and the first pass had dropped some of its
\* records and kept others.
C18_Witness ==
  /\ called = <<"filterExpensesByDate", "filterExpensesByDate">>
  /\ ~returned[2].threw
  /\ returned[1].value # <<>>
  /\ Len(returned[1].value) < Len(argExpenses)

\* How often a record occurs in a list.
Occurrences(records, r) == Cardinality({i \in DOMAIN records : records[i] = r})

\* The grouping `buckets` is a partition of the list by the key KeyOf: one
\* bucket per key, each record in the bucket of its key as often as it is
\* in the list, and each subtotal the sum of the bucket's amounts.
IsPartition(buckets, records, KeyOf(_)) ==
  /\ \A i, j \in DOMAIN buckets : buckets[i].key = buckets[j].key => i = j
  /\ \A i \in DOMAIN buckets :
       /\ buckets[i].expenses # <<>>
       /\ \A m \in DOMAIN buckets[i].expenses : KeyOf(buckets[i].expenses[m]) = buckets[i].key
       /\ buckets[i].total = ExpectedTotal(buckets[i].expenses)
  /\ \A n \in DOMAIN records :
       \E i \in DOMAIN buckets :
         /\ buckets[i].key = KeyOf(records[n])
         /\ Occurrences(buckets[i].expenses, records[n]) = Occurrences(records, records[n])

\* C19: groupByCategory and groupByVendor partition their input: every
\* record is in exactly one bucket, the one named by its key or by the
\* fallback label, none is dropped, and each subtotal is the sum of the
\* amounts of the bucket's members.
C19_GroupsPartitionInput ==
  /\ FirstCall = "groupByCategory" =>
       (~returned[1].threw /\ IsPartition(returned[1].value, argExpenses, CategoryOf))
  /\ FirstCall = "groupByVendor" =>
       (~returned[1].threw /\ IsPartition(returned[1].value, argExpenses, VendorOf))

\* C20: getExpenseStats of the empty list is all zeros; of a non-empty list
\* count is its length, total the sum of the amounts, average total divided
\* by count, min and max the least and the greatest amount.
C20_StatisticsOfList ==
  FirstCall = "getExpenseStats" =>
    LET stats == returned[1].value
        amounts == {AmountOrZero(argExpenses[i]) : i \in DOMAIN argExpenses}
    IN  IF argExpenses = <<>>
          THEN stats = [count |-> 0, total |-> 0, average |-> [num |-> 0, den |-> 1],
                        min |-> 0, max |-> 0]
          ELSE /\ stats.count = Len(argExpenses)
               /\ stats.total = ExpectedTotal(argExpenses)
               /\ stats.average = [num |-> ExpectedTotal(argExpenses), den |-> Len(argExpenses)]
               /\ stats.min \in amounts /\ \A a \in amounts : stats.min <= a
               /\ stats.max \in amounts /\ \A a \in amounts : stats.max >= a

\* The records of a list that have the key k, in the order of the list.
WithKey(records, KeyOf(_), k) ==
  LET Has(r) == KeyOf(r) = k
  IN  SelectSeq(records, Has)

\* `out` is `records` sorted by the key KeyOf in the order asked for: a
\* permutation in which the records that have a key (Keyed) are ordered by
\* it, those of equal key in their input order.
IsStableSort(out, records, KeyOf(_), Keyed(_), order) ==
  /\ Len(out) = Len(records)
  /\ \A i \in DOMAIN records : Occurrences(out, records[i]) = Occurrences(records, records[i])
  /\ \A i, j \in DOMAIN out :
       (i < j /\ Keyed(out[i]) /\ Keyed(out[j])) =>
         IF order = "asc" THEN KeyOf(out[i]) <= KeyOf(out[j])
         ELSE KeyOf(out[i]) >= KeyOf(out[j])
  /\ \A i \in DOMAIN records :
       Keyed(records[i]) =>
         WithKey(out, KeyOf, KeyOf(records[i])) = WithKey(records, KeyOf, KeyOf(records[i]))

\* The date of a record as a sort key, for the records that have a readable
\* date; every record has an amount key, 0 when absent or unparsable.
DateKey(r) == r.date

HasDateKey(r) == r.date \notin {NoDate, BadDate}

HasAmountKey(r) == TRUE

\* C21: sortByDate and sortByAmount return, without raising, a permutation
\* of their input that is ordered by the date (by the amount) in the order
\* asked for, records of equal key staying in their input order.
C21_SortsAreStablePermutations ==
  /\ FirstCall = "sortByDate" =>
       /\ ~returned[1].threw
       /\ IsStableSort(returned[1].value, argExpenses, DateKey, HasDateKey, argOrder)
  /\ FirstCall = "sortByAmount" =>
       /\ ~returned[1].threw
       /\ IsStableSort(returned[1].value, argExpenses, AmountOrZero, HasAmountKey, argOrder)

\* The invoices with a balance above zero, in the order they were fetched.
OutstandingOf(invoices) == SelectSeq(invoices, LAMBDA inv : inv.balance > 0)

RECURSIVE BalanceOf(_)
BalanceOf(invoices) ==
  IF invoices = <<>> THEN 0 ELSE Head(invoices).balance + BalanceOf(Tail(invoices))

\* C22: the unpaid invoices of the report are the invoices of the fetch of
\* all invoices, made without a date filter, whose balance is above zero,
\* whatever their date; an invoice with balance 0 is left out, one with
\* balance 0.01 is kept, and the total unpaid balance is the sum of the
\* balances kept.
C22_UnpaidInvoicesWholeHistory ==
  /\ \A i \in DOMAIN requestLog :
       requestLog[i].kind = "allInvoices" => requestLog[i].filters = "none"
  /\ (report # NoReport /\ variant = "ts") =>
       /\ report.unpaidInvoices = OutstandingOf(fetched["allInvoices"])
       /\ \A i \in DOMAIN fetched["allInvoices"] :
            LET inv == fetched["allInvoices"][i]
            IN  (\E j \in DOMAIN report.unpaidInvoices : report.unpaidInvoices[j] = inv)
                  <=> inv.balance >= 1
       /\ report.totalUnpaidBalance = BalanceOf(report.unpaidInvoices)

\* An invoice dated outside the period with a balance of 0.01 is in the
\* report's unpaid invoices, and the period's own invoices are not all the
\* upstream sent.
C22_Witness ==
  /\ report # NoReport
  /\ variant = "ts"
  /\ \E j \in DOMAIN report.unpaidInvoices :
       /\ ~InResolvedInterval(report.unpaidInvoices[j])
       /\ report.unpaidInvoices[j].balance = 1
  /\ report.totalUnpaidBalance = 1

\* The records of a list dated inside the resolved interval.
InsideOf(records) == SelectSeq(records, InResolvedInterval)

\* C23: in the ts variant the net amount of the report data, read by the
\* renderer and by the mail body, and the net amount of the returned result
\* are the total of the period's payments less the total of the period's
\* expenses.
C23_NetAmountIsPaymentsLessExpenses ==
  LET expected == ExpectedTotal(InsideOf(fetched["payments"]))
                  - ExpectedTotal(InsideOf(fetched["expenses"]))
  IN  /\ (report # NoReport /\ variant = "ts") => report.netAmount = expected
      /\ (variant = "ts" /\ outcome = "returned" /\ result.kind = "report"
          /\ result.hasStats) => result.netAmount = expected

\* A report with a payment of 300.00 and an expense of 40.00 was sent, and
\* the result carries a net amount of 260.00.
C23_Witness ==
  /\ variant = "ts"
  /\ command = "report"
  /\ outcome = "returned"
  /\ result.kind = "report"
  /\ result.hasStats
  /\ delivered
  /\ report.payments # <<>>
  /\ report.expenses # <<>>
  /\ result.netAmount = 26000

\* The page numbers 1, 2, ..., n.
PagesUpTo(n) == [i \in 1..n |-> i]

RECURSIVE ConcatData(_)
ConcatData(pages) ==
  IF pages = <<>> THEN <<>> ELSE Head(pages).data \o ConcatData(Tail(pages))

\* Every answer of the fetch so far carried metadata with the same
\* total_pages and the requested page as current_page, and was not empty.
RegularPages ==
  /\ responses # <<>>
  /\ \A i \in DOMAIN responses :
       /\ responses[i].pagination.present
       /\ responses[i].pagination.total_pages = responses[1].pagination.total_pages
       /\ responses[i].pagination.current_page = responses[i].page
       /\ responses[i].data # <<>>

\* C25: a fetch of the paginating client whose answers are regular, with
\* total_pages = N, requests the pages 1..N in increasing order, each once,
\* and returns the records of the pages in page order.
C25_RegularFetchReadsEveryPageOnce ==
  (client \in {"helper", "inline"} /\ RegularPages) =>
    LET N == responses[1].pagination.total_pages
    IN  /\ requested = PagesUpTo(Len(requested))
        /\ Len(requested) <= N
        /\ \A i \in DOMAIN responses : responses[i].page = i
        /\ (command \in {"getExpenses", "getInvoices"} /\ outcome = "returned") =>
             /\ requested = PagesUpTo(N)
             /\ Len(responses) = N
             /\ result.value = ConcatData(responses)

\* getExpenses of the paginating client returned the two records of a fetch
\* of two regular pages.
C25_Witness ==
  /\ client = "helper"
  /\ command = "getExpenses"
  /\ outcome = "returned"
  /\ RegularPages
  /\ responses[1].pagination.total_pages = 2
  /\ requested = <<1, 2>>
  /\ Len(result.value) = 2

\* The answer stops the loop: it reports current_page >= total_pages, or
\* carries no metadata, or (fetchAllPages) holds an empty page.
StopsLoop(response) ==
  \/ ~response.pagination.present
  \/ response.pagination.current_page >= response.pagination.total_pages
  \/ (client = "helper" /\ response.count = 0)

C29_ApiProbeResultSurvivesMailProbe ==
  (command = "test" /\ outcome = "returned" /\ "probe" \in completed) =>
    result.invoiceNinja

\* C30: the probe of the connection test, getExpenses({ per_page: 1 }),
\* sends exactly one request to the accounting API, however many expenses
\* the upstream holds.
C30_ProbeIsOneRequest ==
  command = "test" =>
    /\ Len(requestLog) <= 1
    /\ "probe" \in completed => Len(requestLog) = 1

\* C27: the engine's render is only ever called on an engine whose init
\* has completed, also when two calls of generateFinancialReport on one
\* PDFGenerator overlap.
C27_RenderOnlyAfterInit == renderedOn \subseteq {"ready"}

\* C28: an engine whose init rejected is not kept in the handle, and no
\* later call of generateFinancialReport renders on it.
C28_FailedInitLeavesHandleNull ==
  /\ jsreport # "failed"
  /\ "failed" \notin renderedOn

\* The last calendar day of month m of year y.
LastDayOf(y, m) ==
  CASE m \in {1, 3, 5, 7, 8, 10, 12} -> 31
    [] m \in {4, 6, 9, 11} -> 30
    [] m = 2 /\ y % 400 = 0 -> 29
    [] m = 2 /\ y % 400 # 0 /\ y % 100 = 0 -> 28
    [] m = 2 /\ y % 100 # 0 /\ y % 4 = 0 -> 29
    [] OTHER -> 28

\* The interval from the first instant of day 1 to the last instant of the
\* last day of month m of year y.
WholeMonth(y, m) ==
  [start |-> MkDate(y, m, 1, 0), end |-> MkDate(y, m, LastDayOf(y, m), 9)]

\* C24: at every resolution time current-month resolves to day 1 through the
\* last calendar day of the month of that time, and last-month to day 1
\* through the last day of the month before, December of the year before
\* when the time is in January.
C24_MonthIntervals ==
  (FirstCall = "getDateRange" /\ options.period \in {"current-month", "last-month"}) =>
    LET y == now \div 100000
        m == (now \div 1000) % 100
    IN  /\ ~returned[1].threw
        /\ returned[1].value =
             IF options.period = "current-month" THEN WholeMonth(y, m)
             ELSE IF m = 1 THEN WholeMonth(y - 1, 12)
             ELSE WholeMonth(y, m - 1)

\* last-month was resolved on 31 January 2024 and gave December 2023.
C24_Witness ==
  /\ FirstCall = "getDateRange"
  /\ ~returned[1].threw
  /\ options.period = "last-month"
  /\ now = MkDate(2024, 1, 31, 4)
  /\ returned[1].value.start = MkDate(2023, 12, 1, 0)
  /\ returned[1].value.end = MkDate(2023, 12, 31, 9)
====
